---- MODULE Spec2Model ----
(***************************************************************************)
(* Personal Finance Tracker (src/streamlit_app.py).                        *)
(*                                                                         *)
(* The script is re-executed top to bottom on every user interaction; one  *)
(* action of Spec is one such run (sidebar, expense form, metrics), with   *)
(* the session state carried from run to run.  SpecFn applies the three    *)
(* module-level functions to inputs drawn from bounded sets.               *)
(*                                                                         *)
(* Amounts are whole rupees.  Python floats are modelled exactly: a        *)
(* quotient is a reduced fraction [num, den]; the products                 *)
(* (1 - savings_target) * min and min * savings_target of the six table    *)
(* rows are whole numbers in IEEE double arithmetic as well.               *)
(* A date is [year, month]: the code reads no other part of it.            *)
(* Tip texts are the source's without their leading emoji.                 *)
(***************************************************************************)
EXTENDS Integers, Sequences, FiniteSets, TLC

VARIABLES
    expenses_df,     \* st.session_state.expenses_df: sequence of rows
    salary_range,    \* st.session_state.salary_range
    monthly_salary,  \* st.session_state.monthly_salary
    submitted,       \* form_submit_button's value in the last run
    clock,           \* datetime.now() as read by the last run
    page,            \* what the last run rendered below the form
    call,            \* SpecFn: the function under evaluation
    arg,             \* SpecFn: its arguments
    ret              \* SpecFn: <<>> before the call, <<result>> after

vars == <<expenses_df, salary_range, monthly_salary, submitted, clock, page,
          call, arg, ret>>

appVars == <<expenses_df, salary_range, monthly_salary, submitted, clock, page>>
fnVars == <<call, arg, ret>>

----------------------------------------------------------------------------
(* Bounds *)

MaxLog == 3
MaxFnLog == 2

\* Values a user may type into the "Amount" field (rupees).
AmountTyped == {-2000, 0, 6000}
\* Values a user may type into the "Enter Exact Monthly Salary" field.
SalaryTyped == {0, 7000, 25000, 60000}
\* Categories picked in the form, among the configured ones.
CategoryPicked == {"Groceries", "Transportation"}
DescriptionTyped == {""}
\* Dates picked in the form: last year's June, this June, this July.
Dates == {[year |-> 2024, month |-> 6], [year |-> 2025, month |-> 6],
          [year |-> 2025, month |-> 7]}
ClockValues == {[year |-> 2025, month |-> 6], [year |-> 2025, month |-> 7]}

\* SpecFn inputs.
FnCategories == {"Groceries", "Other"}
FnLogCategories == FnCategories \cup {"Unknown"}
FnBudgets == {0, 5000}
FnAmounts == {-500, 6000}
FnTotalSpent == {-100, 0, 8500, 8501, 16000, 18000, 22500, 28001, 32500, 60000}

----------------------------------------------------------------------------
(* Configuration constants *)

inf == 1000000000
SalaryInputCap == 1000000
AmountMinValueHundredths == 1

\* savings_target is held in percent: 0.10 is 10.
SALARY_RANGES ==
    "0-10000"     :> [min |-> 0,     max |-> 10000, savings_target |-> 10] @@
    "10000-20000" :> [min |-> 10000, max |-> 20000, savings_target |-> 15] @@
    "20000-30000" :> [min |-> 20000, max |-> 30000, savings_target |-> 20] @@
    "30000-40000" :> [min |-> 30000, max |-> 40000, savings_target |-> 25] @@
    "40000-50000" :> [min |-> 40000, max |-> 50000, savings_target |-> 30] @@
    "50000+"      :> [min |-> 50000, max |-> inf,   savings_target |-> 35]

BUDGET_CATEGORIES ==
    "Groceries"      :> 5000  @@
    "Utilities"      :> 3000  @@
    "Rent/Mortgage"  :> 15000 @@
    "Transportation" :> 2000  @@
    "Dining Out"     :> 3000  @@
    "Entertainment"  :> 2000  @@
    "Shopping"       :> 4000  @@
    "Health"         :> 5000  @@
    "Other"          :> 3000

----------------------------------------------------------------------------
(* Arithmetic helpers *)

Max(a, b) == IF a >= b THEN a ELSE b
Abs(a) == IF a < 0 THEN -a ELSE a

RECURSIVE gcd(_, _)
gcd(a, b) == IF b = 0 THEN a ELSE gcd(b, a % b)

\* The float n / d (d > 0) as a reduced fraction.
Quotient(n, d) ==
    LET g == gcd(Abs(n), d)
    IN  [num |-> n \div g, den |-> d \div g]

\* Series.sum() of the Amount column.
RECURSIVE AmountSum(_)
AmountSum(rows) ==
    IF rows = <<>> THEN 0 ELSE Head(rows).Amount + AmountSum(Tail(rows))

\* sum(budget_categories.values())
RECURSIVE ValuesSum(_)
ValuesSum(d) ==
    IF DOMAIN d = {} THEN 0
    ELSE LET k == CHOOSE x \in DOMAIN d : TRUE
         IN  d[k] + ValuesSum([x \in DOMAIN d \ {k} |-> d[x]])

----------------------------------------------------------------------------
(* calculate_budget_metrics *)

\* dtype of the Date column: the frame built without rows has object
\* columns; concatenating Timestamp rows makes the column datetime64.
DateDtype(df) == IF df = <<>> THEN "object" ELSE "datetime64[ns]"

\* (Date.dt.month == current_month) & (Date.dt.year == current_year)
MutInCurrentMonthIgnoringYear(d, now) == d.month = now.month
InCurrentMonth(d, now) == d.month = now.month /\ d.year = now.year

monthly_df(df, now) == SelectSeq(df, LAMBDA r : InCurrentMonth(r.Date, now))

MutPercentageNoGuard(spent, budget) ==
    IF budget # 0 THEN Quotient(spent * 100, Abs(budget))
    ELSE [num |-> spent * 100, den |-> 0]
percentage(spent, budget) ==
    IF budget > 0 THEN Quotient(spent * 100, budget) ELSE [num |-> 0, den |-> 1]

calculate_budget_metrics(df, budget_categories, now) ==
    IF DateDtype(df) # "datetime64[ns]"
    THEN [raised |-> "AttributeError"]   \* .dt on an object column
    ELSE LET m == monthly_df(df, now)
             spentIn(c) == AmountSum(SelectSeq(m, LAMBDA r : r.Category = c))
         IN  [raised |-> "",
              total_budget |-> ValuesSum(budget_categories),
              total_spent |-> AmountSum(m),
              category_metrics |->
                  [c \in DOMAIN budget_categories |->
                      [budget |-> budget_categories[c],
                       spent |-> spentIn(c),
                       remaining |-> budget_categories[c] - spentIn(c),
                       percentage |-> percentage(spentIn(c), budget_categories[c])]]]

----------------------------------------------------------------------------
(* create_savings_chart: the two bars of the figure *)

MutChartNoClamp(range, total_spent) ==
    LET range_info == SALARY_RANGES[range]
    IN  [recommended_savings |-> (range_info.min * range_info.savings_target) \div 100,
         actual_savings |-> range_info.min - total_spent]
create_savings_chart(range, total_spent) ==
    LET range_info == SALARY_RANGES[range]
    IN  [recommended_savings |-> (range_info.min * range_info.savings_target) \div 100,
         actual_savings |-> Max(0, range_info.min - total_spent)]

----------------------------------------------------------------------------
(* get_savings_recommendations *)

\* f"{savings_target*100}" prints the float: 10.0, 15.0, ...
WarningTip(savings_target) ==
    "Your spending is higher than recommended. Try to save at least "
        \o ToString(savings_target) \o ".0% of your income."

LowTips == <<"Focus on essential expenses only",
             "Use public transportation when possible",
             "Cook meals at home instead of eating out">>
MidTips == <<"Consider starting an emergency fund",
             "Review and optimize monthly subscriptions",
             "Look into fixed deposits for savings">>
HighTips == <<"Consider investing in mutual funds",
              "Plan for long-term investments",
              "Optimize credit card rewards">>

\* total_spent > (1 - savings_target) * min_salary
MutSpendingAtOrAboveMargin(range, total_spent) ==
    total_spent * 100 >=
        (100 - SALARY_RANGES[range].savings_target) * SALARY_RANGES[range].min
SpendingAboveMargin(range, total_spent) ==
    total_spent * 100 >
        (100 - SALARY_RANGES[range].savings_target) * SALARY_RANGES[range].min

get_savings_recommendations(range, total_spent) ==
    LET warning == IF SpendingAboveMargin(range, total_spent)
                   THEN <<WarningTip(SALARY_RANGES[range].savings_target)>>
                   ELSE <<>>
    IN  IF range \in {"0-10000", "10000-20000"} THEN warning \o LowTips
        ELSE IF range \in {"20000-30000", "30000-40000"} THEN warning \o MidTips
        ELSE warning \o HighTips

----------------------------------------------------------------------------
(* The widgets *)

\* number_input("Enter Exact Monthly Salary"): the bounds it is given.
number_input_min(selected) == SALARY_RANGES[selected].min
number_input_max(selected) ==
    IF selected # "50000+" THEN SALARY_RANGES[selected].max ELSE SalaryInputCap

\* The values the salary widget can return for the selected bracket.
MutSalaryAcceptedUnbounded(selected) == SalaryTyped
SalaryAccepted(selected) ==
    {s \in SalaryTyped : number_input_min(selected) <= s /\ s <= number_input_max(selected)}

\* The salary widget after the bracket changed: its arguments differ, so it
\* is a new widget and returns its default, value=min.
MutSalaryKeptAcrossBrackets(selected, previous) == previous
SalaryAfterSelect(selected, previous) == SALARY_RANGES[selected].min

\* number_input("Amount", min_value=0.01, step=0.01)
MutAmountAcceptedNoMin == AmountTyped
AmountAccepted == {a \in AmountTyped : a * 100 >= AmountMinValueHundredths}

\* description or "-"
DescriptionOrDash(description) == IF description = "" THEN "-" ELSE description

new_expense(date, category, amount, description) ==
    [Date |-> date, Category |-> category, Amount |-> amount,
     Description |-> DescriptionOrDash(description)]

\* pd.concat([expenses_df, new_expense], ignore_index=True)
MutConcatDropDuplicates(df, row) ==
    IF \E i \in 1..Len(df) : df[i] = row THEN df ELSE Append(df, row)
concat(df, row) == Append(df, row)

----------------------------------------------------------------------------
(* What one run renders after the form *)

Render(df, range, salary, now) ==
    IF df # <<>>
    THEN LET budget_metrics == calculate_budget_metrics(df, BUDGET_CATEGORIES, now)
             savings == Max(0, salary - budget_metrics.total_spent)
         IN  [branch |-> "overview",
              budget_metrics |-> budget_metrics,
              savings |-> savings,
              savings_rate |-> IF salary > 0 THEN Quotient(savings * 100, salary)
                               ELSE [num |-> 0, den |-> 1],
              savings_fig |-> create_savings_chart(range, budget_metrics.total_spent),
              recommendations |->
                  get_savings_recommendations(range, budget_metrics.total_spent)]
    ELSE [branch |-> "info"]

\* One execution of the script.
Run(selected, exact_salary, is_submitted, df, now) ==
    /\ salary_range' = selected
    /\ monthly_salary' = exact_salary
    /\ submitted' = is_submitted
    /\ expenses_df' = df
    /\ clock' = now
    /\ page' = Render(df, selected, exact_salary, now)
    /\ UNCHANGED fnVars

\* datetime.now() never goes back.
Later(now) ==
    {t \in ClockValues : t.year > now.year \/ (t.year = now.year /\ t.month >= now.month)}

----------------------------------------------------------------------------
(* Spec: the application *)

NoCall == [fn |-> "none"]

Init ==
    /\ expenses_df = <<>>
    /\ salary_range = "0-10000"
    /\ monthly_salary = 0
    /\ submitted = FALSE
    /\ clock = [year |-> 2025, month |-> 6]
    /\ page = [branch |-> "info"]
    /\ call = "none"
    /\ arg = NoCall
    /\ ret = <<>>

SelectSalaryRange ==
    \E selected \in DOMAIN SALARY_RANGES \ {salary_range}, now \in Later(clock) :
        Run(selected, SalaryAfterSelect(selected, monthly_salary), FALSE,
            expenses_df, now)

EnterExactSalary ==
    \E exact_salary \in SalaryAccepted(salary_range) \ {monthly_salary},
       now \in Later(clock) :
        Run(salary_range, exact_salary, FALSE, expenses_df, now)

SubmitExpense ==
    /\ Len(expenses_df) < MaxLog
    /\ \E date \in Dates, category \in CategoryPicked, amount \in AmountAccepted,
          description \in DescriptionTyped, now \in Later(clock) :
        Run(salary_range, monthly_salary, TRUE,
            concat(expenses_df, new_expense(date, category, amount, description)),
            now)

Rerun ==
    \E now \in Later(clock) :
        Run(salary_range, monthly_salary, FALSE, expenses_df, now)

Next == SelectSalaryRange \/ EnterExactSalary \/ SubmitExpense \/ Rerun

Spec == Init /\ [][Next]_vars

----------------------------------------------------------------------------
(* SpecFn: the three functions on bounded inputs *)

FnRows == [Date : Dates, Category : FnLogCategories, Amount : FnAmounts,
           Description : {"-"}]
FnLogs == UNION {[1..n -> FnRows] : n \in 0..MaxFnLog}
FnBudgetTables ==
    {BUDGET_CATEGORIES} \cup UNION {[S -> FnBudgets] : S \in SUBSET FnCategories}

InitFn ==
    /\ expenses_df = <<>>
    /\ salary_range = "0-10000"
    /\ monthly_salary = 0
    /\ submitted = FALSE
    /\ clock = [year |-> 2025, month |-> 6]
    /\ page = [branch |-> "info"]
    /\ ret = <<>>
    /\ \/ /\ call = "calculate_budget_metrics"
          /\ arg \in [df : FnLogs, budget_categories : FnBudgetTables,
                      now : ClockValues]
       \/ /\ call \in {"create_savings_chart", "get_savings_recommendations"}
          /\ arg \in [salary_range : DOMAIN SALARY_RANGES,
                      total_spent : FnTotalSpent]

CallCalculateBudgetMetrics ==
    /\ call = "calculate_budget_metrics"
    /\ ret = <<>>
    /\ ret' = <<calculate_budget_metrics(arg.df, arg.budget_categories, arg.now)>>
    /\ UNCHANGED <<call, arg>>
    /\ UNCHANGED appVars

CallCreateSavingsChart ==
    /\ call = "create_savings_chart"
    /\ ret = <<>>
    /\ ret' = <<create_savings_chart(arg.salary_range, arg.total_spent)>>
    /\ UNCHANGED <<call, arg>>
    /\ UNCHANGED appVars

CallGetSavingsRecommendations ==
    /\ call = "get_savings_recommendations"
    /\ ret = <<>>
    /\ ret' = <<get_savings_recommendations(arg.salary_range, arg.total_spent)>>
    /\ UNCHANGED <<call, arg>>
    /\ UNCHANGED appVars

NextFn ==
    \/ CallCalculateBudgetMetrics
    \/ CallCreateSavingsChart
    \/ CallGetSavingsRecommendations

SpecFn == InitFn /\ [][NextFn]_vars

----------------------------------------------------------------------------
(* Properties *)

Last(s) == s[Len(s)]

Overview == page.branch = "overview"
Evaluated == call = "calculate_budget_metrics" /\ ret # <<>>
Returned == Evaluated /\ ret[1].raised = ""

\* a <= b for fractions with positive denominators
LeqQ(a, b) == a.num * b.den <= b.num * a.den

RECURSIVE RemainingSum(_)
RemainingSum(cm) ==
    IF DOMAIN cm = {} THEN 0
    ELSE LET k == CHOOSE x \in DOMAIN cm : TRUE
         IN  cm[k].remaining + RemainingSum([x \in DOMAIN cm \ {k} |-> cm[x]])

\* C1: for every expense log and every category budget table, the snapshot
\* calculate_budget_metrics returns has the 'remaining' of all configured
\* categories summing to total_budget - total_spent.
C1_RemainingSumsToBudgetMinusSpent ==
    Returned =>
        RemainingSum(ret[1].category_metrics)
            = ret[1].total_budget - ret[1].total_spent

\* C2: a submission whose date is outside the current month and year (the
\* same month of another year included) leaves every field of the
\* current-month snapshot as it was.
C2_OutsideMonthAppendKeepsSnapshot ==
    [][(/\ submitted'
        /\ Overview
        /\ clock' = clock
        /\ ~(/\ Last(expenses_df').Date.month = clock.month
             /\ Last(expenses_df').Date.year = clock.year))
       => /\ Overview'
          /\ page'.budget_metrics = page.budget_metrics]_vars

C2_Witness ==
    /\ submitted
    /\ Overview
    /\ Len(expenses_df) >= 2
    /\ Last(expenses_df).Date.month = clock.month
    /\ Last(expenses_df).Date.year # clock.year
    /\ page.budget_metrics.total_spent > 0

\* Between two snapshots of the same clock month: total_budget is the same,
\* total_spent and each category's budget, spent and percentage do not
\* decrease.
SnapshotGrows(old, new) ==
    /\ new.total_budget = old.total_budget
    /\ new.total_spent >= old.total_spent
    /\ \A c \in DOMAIN old.category_metrics :
        /\ new.category_metrics[c].budget >= old.category_metrics[c].budget
        /\ new.category_metrics[c].spent >= old.category_metrics[c].spent
        /\ LeqQ(old.category_metrics[c].percentage,
                new.category_metrics[c].percentage)

SameMonthStep == Overview /\ Overview' /\ clock' = clock

\* C3 as stated: across submissions within one clock month total_budget is
\* constant and total_spent and every per-category value, 'remaining'
\* included, is non-decreasing.
C3_AllValuesNonDecreasing ==
    [][SameMonthStep =>
        /\ SnapshotGrows(page.budget_metrics, page'.budget_metrics)
        /\ \A c \in DOMAIN BUDGET_CATEGORIES :
            page'.budget_metrics.category_metrics[c].remaining
                >= page.budget_metrics.category_metrics[c].remaining]_vars

\* C3 amended: across submissions within one clock month total_budget is
\* constant, total_spent and each category's budget, spent and percentage
\* are non-decreasing, and each category's remaining is non-increasing.
C3_SpentGrowsRemainingShrinks ==
    [][SameMonthStep =>
        /\ SnapshotGrows(page.budget_metrics, page'.budget_metrics)
        /\ \A c \in DOMAIN BUDGET_CATEGORIES :
            page'.budget_metrics.category_metrics[c].remaining
                <= page.budget_metrics.category_metrics[c].remaining]_vars

C3_Witness ==
    /\ submitted
    /\ Overview
    /\ Len(expenses_df) >= 2
    /\ \A i \in 1..Len(expenses_df) : expenses_df[i].Date = clock
    /\ page.budget_metrics.category_metrics["Groceries"].spent = 12000
    /\ page.budget_metrics.category_metrics["Groceries"].remaining = -7000

\* C4: the expense log is append-only: a submission lengthens it by exactly
\* one, puts the new record last and keeps every earlier record in place;
\* no other run changes it; identical submissions give two records.
C4_LogAppendOnly ==
    [][/\ submitted' =>
            /\ Len(expenses_df') = Len(expenses_df) + 1
            /\ \A i \in 1..Len(expenses_df) : expenses_df'[i] = expenses_df[i]
            /\ expenses_df' = Append(expenses_df, Last(expenses_df'))
       /\ ~submitted' => expenses_df' = expenses_df]_vars

C4_Witness ==
    /\ submitted
    /\ Len(expenses_df) >= 2
    /\ expenses_df[Len(expenses_df)] = expenses_df[Len(expenses_df) - 1]
    /\ salary_range # "0-10000"

\* The tier of a bracket label, by enumeration.
C5_Tier(label) ==
    IF label = "0-10000" \/ label = "10000-20000" THEN LowTips
    ELSE IF label = "20000-30000" \/ label = "30000-40000" THEN MidTips
    ELSE HighTips

\* C5: get_savings_recommendations returns the warning tip first exactly
\* when total_spent > (1 - savings_target) * min, then the three tips of
\* the bracket's tier, the tier chosen by label: 3 or 4 tips in all.
C5_Recommendations ==
    (call = "get_savings_recommendations" /\ ret # <<>>) =>
        LET tips == ret[1]
            info == SALARY_RANGES[arg.salary_range]
            warn == arg.total_spent * 100 > (100 - info.savings_target) * info.min
        IN  /\ Len(tips) = IF warn THEN 4 ELSE 3
            /\ warn => tips[1] = WarningTip(info.savings_target)
            /\ SubSeq(tips, Len(tips) - 2, Len(tips)) = C5_Tier(arg.salary_range)
            /\ \A i \in 1..3 : C5_Tier(arg.salary_range)[i] # WarningTip(info.savings_target)

C5_Witness ==
    /\ call = "get_savings_recommendations"
    /\ arg.salary_range = "20000-30000"
    /\ arg.total_spent = 18000
    /\ ret = << <<WarningTip(20)>> \o MidTips >>

\* C6: the chart's actual savings is max(0, bracket min - total_spent):
\* never negative, 0 once total_spent reaches the bracket min, and taken
\* from the bracket min whatever exact salary was entered.
C6_ActualSavings ==
    Overview =>
        LET floor == SALARY_RANGES[salary_range].min
            spent == page.budget_metrics.total_spent
            actual == page.savings_fig.actual_savings
        IN  /\ actual >= 0
            /\ spent >= floor => actual = 0
            /\ spent < floor => actual = floor - spent

C6_Witness ==
    /\ Overview
    /\ salary_range = "20000-30000"
    /\ monthly_salary = 25000
    /\ page.budget_metrics.total_spent = 12000
    /\ page.savings_fig.actual_savings = 8000
    /\ page.savings = 13000

\* C7: evaluating the budget for an empty expense log yields a snapshot with
\* total_spent = 0 and, per category, spent = 0, remaining = budget and
\* percentage = 0, and raises no error.
C7_EmptyLogYieldsZeroSnapshot ==
    (Evaluated /\ arg.df = <<>>) =>
        /\ ret[1].raised = ""
        /\ ret[1].total_spent = 0
        /\ \A c \in DOMAIN arg.budget_categories :
            /\ ret[1].category_metrics[c].spent = 0
            /\ ret[1].category_metrics[c].remaining = arg.budget_categories[c]
            /\ ret[1].category_metrics[c].percentage.num = 0

\* C8: a category of budget 0 has percentage 0 whatever was spent in it; a
\* category of budget > 0 has percentage spent / budget * 100 (budget 5000,
\* spent 6000: remaining -1000, percentage 120).
C8_Percentage ==
    Returned =>
        \A c \in DOMAIN arg.budget_categories :
            LET m == ret[1].category_metrics[c]
            IN  /\ m.percentage.den > 0
                /\ m.budget = 0 => m.percentage.num = 0
                /\ m.budget > 0 =>
                    m.percentage.num * m.budget = m.spent * 100 * m.percentage.den
                /\ (m.budget = 5000 /\ m.spent = 6000) =>
                    /\ m.remaining = -1000
                    /\ m.percentage = [num |-> 120, den |-> 1]

C8_Witness ==
    /\ Returned
    /\ DOMAIN arg.budget_categories = {"Groceries", "Other"}
    /\ ret[1].category_metrics["Other"].budget = 0
    /\ ret[1].category_metrics["Other"].spent = 6000
    /\ ret[1].category_metrics["Other"].percentage.num = 0
    /\ ret[1].category_metrics["Groceries"].budget = 5000
    /\ ret[1].category_metrics["Groceries"].spent = 6000

\* C9: the salary in session state lies within [min, max] of the bracket in
\* session state whenever the metrics are computed.
C9_SalaryWithinBracket ==
    /\ SALARY_RANGES[salary_range].min <= monthly_salary
    /\ monthly_salary <= SALARY_RANGES[salary_range].max

C9_Witness ==
    /\ Overview
    /\ salary_range = "10000-20000"
    /\ monthly_salary = 10000
    /\ page.savings = 4000

\* C10: where the overview is shown, Total Savings is at least the chart's
\* actual savings, and the savings rate is between 0 and 100 and is 0 when
\* the exact salary is 0.
C10_OverviewSavings ==
    Overview =>
        /\ page.savings >= page.savings_fig.actual_savings
        /\ page.savings_rate.den > 0
        /\ 0 <= page.savings_rate.num
        /\ page.savings_rate.num <= 100 * page.savings_rate.den
        /\ monthly_salary = 0 => page.savings_rate.num = 0

C10_Witness ==
    /\ Overview
    /\ salary_range = "50000+"
    /\ monthly_salary = 60000
    /\ page.budget_metrics.total_spent = 6000
    /\ page.savings = 54000
    /\ page.savings_fig.actual_savings = 44000
    /\ page.savings_rate = [num |-> 90, den |-> 1]

====
